---- MODULE Spec2Model ----
(***************************************************************************)
(* Layouter (src/proc/layouter.rs): derives the size and alignment of      *)
(* every type of a type arena.                                             *)
(*                                                                         *)
(* Handles are zero-based indices (Handle::index); a TLA+ sequence is      *)
(* one-based, so the layout of handle h is layouts[h + 1].                 *)
(* Option<NonZeroU32> is modelled by its niche: 0 is None, n > 0 is        *)
(* Some(n).                                                                *)
(* u8 arithmetic is modelled at its width (products above 255 overflow:    *)
(* a panic when overflow checks are compiled in, a wrap modulo 256         *)
(* otherwise).  Every u32 quantity of the model stays far below 2^32, so   *)
(* u32 arithmetic is modelled by the arithmetic of the naturals.           *)
(***************************************************************************)
EXTENDS Integers, Sequences, FiniteSets

VARIABLES
    layouts,          \* Layouter.layouts: Vec<TypeLayout>
    status,           \* "ok", or "panicked" once a call has panicked
    op,               \* the last call made
    arg,              \* arguments of the last resolve/member_placement/round_up
    result,           \* value returned by the last call
    types,            \* type arena passed to the last new/initialize
    constants,        \* constant arena passed to the last new/initialize
    pushed,           \* the values pushed, in order, by the last initialize pass
    overflow_checks   \* build profile: TRUE when integer overflow panics

vars == <<layouts, status, op, arg, result, types, constants, pushed, overflow_checks>>

-----------------------------------------------------------------------------
(* Bounds of the model.                                                    *)

MaxTypes == 2         \* exhaustive arenas hold at most this many types
MaxMembers == 2       \* exhaustive structs hold at most this many members
MaxAlignment == 16    \* round_up calls use alignments 1..MaxAlignment
MaxOffset == 40       \* round_up calls use offsets 0..MaxOffset

-----------------------------------------------------------------------------
(* Integer helpers.                                                        *)

U8Modulus == 256

RECURSIVE BitAnd(_, _)
BitAnd(a, b) ==
    IF a = 0 \/ b = 0 THEN 0
    ELSE (a % 2) * (b % 2) + 2 * BitAnd(a \div 2, b \div 2)

RECURSIVE IsPowerOfTwo(_)
IsPowerOfTwo(n) ==
    IF n <= 0 THEN FALSE
    ELSE IF n = 1 THEN TRUE
    ELSE n % 2 = 0 /\ IsPowerOfTwo(n \div 2)

Max(a, b) == IF a >= b THEN a ELSE b

Panicked == [panic |-> TRUE]
Value(v) == [panic |-> FALSE, value |-> v]

\* u8 * u8
MulU8(a, b, checks) ==
    IF a * b < U8Modulus THEN Value(a * b)
    ELSE IF checks THEN Panicked
    ELSE Value((a * b) % U8Modulus)

\* Alignment::new(v).unwrap()
AlignmentNew(v) == IF v = 0 THEN Panicked ELSE Value(v)

TypeLayout(size, alignment) == [size |-> size, alignment |-> alignment]

-----------------------------------------------------------------------------
(* Layouter::round_up                                                      *)

\* round_up without the arm that returns the offset unchanged
RoundUpAddsAlways(alignment, offset) == offset + alignment

RoundUp(alignment, offset) ==
    LET other == BitAnd(offset, alignment) IN
    IF other = 0 THEN offset
    ELSE offset + alignment - other

-----------------------------------------------------------------------------
(* Layouter::member_placement                                              *)

\* member_placement that never reads member.align
MemberPlacementIgnoresAlign(lays, offset, member) ==
    IF member.ty + 1 > Len(lays) THEN Panicked
    ELSE
        LET layout == lays[member.ty + 1]
            alignment == layout.alignment
            start == RoundUp(alignment, offset)
            end == start + (IF member.size # 0 THEN member.size ELSE layout.size)
        IN [panic |-> FALSE, start |-> start, end |-> end, alignment |-> alignment]

MemberPlacement(lays, offset, member) ==
    IF member.ty + 1 > Len(lays) THEN Panicked
    ELSE
        LET layout == lays[member.ty + 1]
            alignment == IF member.align # 0 THEN member.align ELSE layout.alignment
            start == RoundUp(alignment, offset)
            end == start + (IF member.size # 0 THEN member.size ELSE layout.size)
        IN [panic |-> FALSE, start |-> start, end |-> end, alignment |-> alignment]

-----------------------------------------------------------------------------
(* Layouter::initialize, one match arm per operator.                       *)

VectorCount(size) == IF size >= 3 THEN 4 ELSE 2

ScalarLayout(ty) ==
    LET a == AlignmentNew(ty.width) IN
    IF a.panic THEN Panicked ELSE Value(TypeLayout(ty.width, a.value))

VectorLayout(ty, checks) ==
    LET s == MulU8(ty.size, ty.width, checks) IN
    IF s.panic THEN Panicked
    ELSE LET m == MulU8(VectorCount(ty.size), ty.width, checks) IN
         IF m.panic THEN Panicked
         ELSE LET a == AlignmentNew(m.value) IN
              IF a.panic THEN Panicked ELSE Value(TypeLayout(s.value, a.value))

MatrixLayout(ty, checks) ==
    LET cr == MulU8(ty.columns, ty.rows, checks) IN
    IF cr.panic THEN Panicked
    ELSE LET s == MulU8(cr.value, ty.width, checks) IN
         IF s.panic THEN Panicked
         ELSE LET m == MulU8(VectorCount(ty.rows), ty.width, checks) IN
              IF m.panic THEN Panicked
              ELSE LET a == AlignmentNew(m.value) IN
                   IF a.panic THEN Panicked ELSE Value(TypeLayout(s.value, a.value))

PointerLayout == Value(TypeLayout(4, 1))

ImageLayout == Value(TypeLayout(0, 1))

\* the element count of an array
ArrayCount(size, consts) ==
    IF size.kind = "Dynamic" THEN Value(0)
    ELSE IF size.handle + 1 > Len(consts) THEN Panicked
    ELSE LET c == consts[size.handle + 1] IN
         IF c.kind \in {"Uint", "Sint"} THEN Value(c.value)
         ELSE Panicked

ArrayStride(ty, lays) ==
    IF ty.stride # 0 THEN Value(ty.stride)
    ELSE IF ty.base + 1 > Len(lays) THEN Panicked
    ELSE LET layout == lays[ty.base + 1] IN
         AlignmentNew(RoundUp(layout.alignment, layout.size))

\* the Array arm with the base element's alignment in place of the stride
ArrayLayoutBaseAlignment(ty, lays, consts) ==
    LET count == ArrayCount(ty.size, consts) IN
    IF count.panic THEN Panicked
    ELSE LET stride == ArrayStride(ty, lays) IN
         IF stride.panic THEN Panicked
         ELSE IF ty.base + 1 > Len(lays) THEN Panicked
         ELSE Value(TypeLayout(count.value * stride.value, lays[ty.base + 1].alignment))

ArrayLayout(ty, lays, consts) ==
    LET count == ArrayCount(ty.size, consts) IN
    IF count.panic THEN Panicked
    ELSE LET stride == ArrayStride(ty, lays) IN
         IF stride.panic THEN Panicked
         ELSE Value(TypeLayout(count.value * stride.value, stride.value))

\* the member loop of the Struct arm, from member k on
RECURSIVE StructWalk(_, _, _, _, _)
StructWalk(members, lays, k, total, biggest_alignment) ==
    IF k > Len(members)
    THEN Value(TypeLayout(RoundUp(biggest_alignment, total), biggest_alignment))
    ELSE LET p == MemberPlacement(lays, total, members[k]) IN
         IF p.panic THEN Panicked
         ELSE StructWalk(members, lays, k + 1, p.end, Max(biggest_alignment, p.alignment))

StructLayout(ty, lays) == StructWalk(ty.members, lays, 1, 0, 1)

TypeArm(ty, lays, consts, checks) ==
    CASE ty.tag = "Scalar" -> ScalarLayout(ty)
      [] ty.tag = "Vector" -> VectorLayout(ty, checks)
      [] ty.tag = "Matrix" -> MatrixLayout(ty, checks)
      [] ty.tag \in {"Pointer", "ValuePointer"} -> PointerLayout
      [] ty.tag = "Array" -> ArrayLayout(ty, lays, consts)
      [] ty.tag = "Struct" -> StructLayout(ty, lays)
      [] ty.tag \in {"Image", "Sampler"} -> ImageLayout

\* initialize without the clear
ClearKeeps(lays) == lays

\* self.layouts.clear()
Clear(lays) == <<>>

\* the loop over types.iter(), from type i on; a panic leaves the loop
RECURSIVE InitializePass(_, _, _, _, _)
InitializePass(tys, consts, lays, i, checks) ==
    IF i > Len(tys) THEN [panic |-> FALSE, layouts |-> lays]
    ELSE LET r == TypeArm(tys[i], lays, consts, checks) IN
         IF r.panic THEN [panic |-> TRUE, layouts |-> lays]
         ELSE InitializePass(tys, consts, Append(lays, r.value), i + 1, checks)

\* the whole of initialize on a table holding lays
InitializeOutcome(lays, tys, consts, checks) ==
    LET cleared == Clear(lays)
        out == InitializePass(tys, consts, cleared, 1, checks)
    IN [panic |-> out.panic,
        layouts |-> out.layouts,
        pushed |-> SubSeq(out.layouts, Len(cleared) + 1, Len(out.layouts))]

-----------------------------------------------------------------------------
(* Layouter::resolve                                                       *)

\* resolve that clamps the index to the last entry
ResolveClamps(lays, handle) ==
    IF Len(lays) = 0 THEN Panicked
    ELSE IF handle.index + 1 > Len(lays) THEN Value(lays[Len(lays)])
    ELSE Value(lays[handle.index + 1])

Resolve(lays, handle) ==
    IF handle.index + 1 > Len(lays) THEN Panicked
    ELSE Value(lays[handle.index + 1])

-----------------------------------------------------------------------------
(* Values of crate::TypeInner, crate::StructMember, crate::ArraySize and   *)
(* crate::ConstantInner that the layouter reads.                           *)

Scalar(width) == [tag |-> "Scalar", width |-> width]
Vector(size, width) == [tag |-> "Vector", size |-> size, width |-> width]
Matrix(columns, rows, width) ==
    [tag |-> "Matrix", columns |-> columns, rows |-> rows, width |-> width]
Pointer == [tag |-> "Pointer"]
ValuePointer == [tag |-> "ValuePointer"]
Image == [tag |-> "Image"]
Sampler == [tag |-> "Sampler"]
Array(base, size, stride) ==
    [tag |-> "Array", base |-> base, size |-> size, stride |-> stride]
Struct(members) == [tag |-> "Struct", members |-> members]
Member(ty, align, size) == [ty |-> ty, align |-> align, size |-> size]
Dynamic == [kind |-> "Dynamic"]
Constant(handle) == [kind |-> "Constant", handle |-> handle]

\* crate::VectorSize: Bi = 2, Tri = 3, Quad = 4
VectorSizes == {2, 3, 4}

-----------------------------------------------------------------------------
(* Inputs of the calls.                                                    *)

\* every non-aggregate type, over every nonzero u8 width
Widths == 1 .. (U8Modulus - 1)

LeafTypes ==
    {Scalar(w) : w \in Widths}
    \cup {Vector(n, w) : n \in VectorSizes, w \in Widths}
    \cup {Matrix(c, r, w) : c \in VectorSizes, r \in VectorSizes, w \in Widths}
    \cup {Pointer, ValuePointer, Image, Sampler}

LeafArenas == {<<t>> : t \in LeafTypes}

\* the constant arena: two integer constants and one that is no integer
ConstantArena ==
    << [kind |-> "Uint", value |-> 3],
       [kind |-> "Sint", value |-> 2],
       [kind |-> "Float"] >>

\* forward-ordered arenas of at most MaxTypes types
SmallLeaves == {Scalar(4), Vector(3, 4), Image}
ArraySizes == {Dynamic, Constant(0), Constant(1)}
Strides == {0, 12, 16}
\* <<align, size>> of the members of the exhaustive structs
MemberOverrides == {<<0, 0>>, <<8, 20>>}

\* <<align, size>> of the members passed to member_placement
PlacementOverrides == {<<0, 0>>, <<8, 0>>, <<0, 20>>}

MembersOver(n) == {Member(t, o[1], o[2]) : t \in 0 .. (n - 1), o \in MemberOverrides}

MemberLists(n) == UNION {[1 .. k -> MembersOver(n)] : k \in 0 .. MaxMembers}

\* the types that may stand at handle index n
TypesAt(n) ==
    SmallLeaves
    \cup {Array(b, s, st) : b \in 0 .. (n - 1), s \in ArraySizes, st \in Strides}
    \cup {Struct(ms) : ms \in MemberLists(n)}

RECURSIVE ArenasOfLen(_)
ArenasOfLen(n) ==
    IF n = 0 THEN {<<>>}
    ELSE {Append(a, t) : a \in ArenasOfLen(n - 1), t \in TypesAt(n - 1)}

SmallArenas == UNION {ArenasOfLen(n) : n \in 0 .. MaxTypes}

\* a vec3 and a scalar in a struct, and a dynamic array of that struct
ExampleStruct ==
    << Vector(3, 4),
       Scalar(4),
       Struct(<<Member(0, 0, 0), Member(1, 0, 0)>>),
       Array(2, Dynamic, 0) >>

\* an array of vec3 as a struct member, members with either override, and
\* an array of that struct
ExampleNested ==
    << Vector(3, 4),
       Array(0, Constant(0), 0),
       Scalar(4),
       Struct(<<Member(2, 0, 0), Member(1, 0, 0), Member(0, 8, 0), Member(2, 0, 20)>>),
       Array(3, Constant(1), 0) >>

\* an array whose size is no integer constant
ExampleBadConstant == << Scalar(4), Array(0, Constant(2), 16) >>

ExampleOpaque == << Sampler, Pointer, Matrix(4, 4, 4) >>

ExampleArenas == {ExampleStruct, ExampleNested, ExampleBadConstant, ExampleOpaque}

Prefixes(a) == {SubSeq(a, 1, k) : k \in 0 .. Len(a)}

NewArenas == LeafArenas \cup SmallArenas \cup ExampleArenas

RebuildArenas == UNION {Prefixes(a) : a \in ExampleArenas}

MaxHandle == 4

\* a handle, and whether it comes from the arena the table was built from
Handles == [index : 0 .. MaxHandle, own : BOOLEAN]

PlacementOffsets == {0, 4, 12, 16}

PlacementMembers ==
    {Member(t, o[1], o[2]) : t \in 0 .. MaxHandle, o \in PlacementOverrides}

Unit == [unit |-> TRUE]

-----------------------------------------------------------------------------
(* State machine.                                                          *)

\* Layouter::default(), before any call
Init ==
    /\ layouts = <<>>
    /\ status = "ok"
    /\ op = "none"
    /\ arg = Unit
    /\ result = Unit
    /\ types = <<>>
    /\ constants = <<>>
    /\ pushed = <<>>
    /\ overflow_checks \in BOOLEAN

Build(name, tys, consts) ==
    LET out == InitializeOutcome(layouts, tys, consts, overflow_checks) IN
    /\ layouts' = out.layouts
    /\ pushed' = out.pushed
    /\ status' = IF out.panic THEN "panicked" ELSE "ok"
    /\ op' = name
    /\ arg' = Unit
    /\ result' = Unit
    /\ types' = tys
    /\ constants' = consts
    /\ UNCHANGED overflow_checks

\* Layouter::new(types, constants), types drawn from arenas
New(arenas, consts) ==
    /\ op = "none"
    /\ \E tys \in arenas : Build("new", tys, consts)

\* layouter.initialize(types, constants) on a constructed layouter, types
\* drawn from arenas
Initialize(arenas, consts) ==
    /\ op # "none"
    /\ status = "ok"
    /\ \E tys \in arenas : Build("initialize", tys, consts)

\* layouter.resolve(handle)
ResolveCall(handle) ==
    /\ op # "none"
    /\ status = "ok"
    /\ handle.own => handle.index < Len(types)
    /\ LET r == Resolve(layouts, handle) IN
        /\ status' = IF r.panic THEN "panicked" ELSE "ok"
        /\ result' = IF r.panic THEN Unit ELSE r.value
    /\ op' = "resolve"
    /\ arg' = handle
    /\ UNCHANGED <<layouts, types, constants, pushed, overflow_checks>>

\* layouter.member_placement(offset, member)
MemberPlacementCall(offset, member) ==
    /\ op # "none"
    /\ status = "ok"
    /\ LET r == MemberPlacement(layouts, offset, member) IN
        /\ status' = IF r.panic THEN "panicked" ELSE "ok"
        /\ result' = IF r.panic THEN Unit
                     ELSE [start |-> r.start, end |-> r.end, alignment |-> r.alignment]
    /\ op' = "member_placement"
    /\ arg' = [offset |-> offset, member |-> member]
    /\ UNCHANGED <<layouts, types, constants, pushed, overflow_checks>>

\* Layouter::round_up(alignment, offset)
RoundUpCall(alignment, offset) ==
    /\ status = "ok"
    /\ result' = RoundUp(alignment, offset)
    /\ op' = "round_up"
    /\ arg' = [alignment |-> alignment, offset |-> offset]
    /\ UNCHANGED <<layouts, status, types, constants, pushed, overflow_checks>>

Next ==
    \/ New(RebuildArenas, ConstantArena)
    \/ Initialize(RebuildArenas, ConstantArena)
    \/ \E h \in Handles : ResolveCall(h)
    \/ \E o \in PlacementOffsets, m \in PlacementMembers : MemberPlacementCall(o, m)

Spec == Init /\ [][Next]_vars

\* one construction, over every leaf type and every small arena
NextNew == New(NewArenas, ConstantArena)

SpecNew == Init /\ [][NextNew]_vars

\* calls of the associated function round_up
NextRoundUp == \E a \in 1 .. MaxAlignment, o \in 0 .. MaxOffset : RoundUpCall(a, o)

SpecRoundUp == Init /\ [][NextRoundUp]_vars

-----------------------------------------------------------------------------
(* Properties.                                                             *)

Built == op \in {"new", "initialize"} /\ status = "ok"

\* C1: for every power-of-two alignment a and offset o, round_up(a, o) is the
\* smallest r >= o that passes the alignment test (r AND a) = 0.
C1_RoundUpSmallestPassingTest ==
    (op = "round_up" /\ IsPowerOfTwo(arg.alignment)) =>
        /\ result >= arg.offset
        /\ BitAnd(result, arg.alignment) = 0
        /\ \A r \in arg.offset .. (result - 1) : BitAnd(r, arg.alignment) # 0

\* C2: for every power-of-two alignment a and offset o, rounding the result of
\* round_up(a, o) again with a leaves it unchanged, and the result is >= o.
C2_RoundUpIdempotent ==
    (op = "round_up" /\ IsPowerOfTwo(arg.alignment)) =>
        /\ RoundUp(arg.alignment, result) = result
        /\ result >= arg.offset

\* a round_up call that took the arm adding the alignment
C2_Witness ==
    /\ op = "round_up"
    /\ IsPowerOfTwo(arg.alignment)
    /\ BitAnd(arg.offset, arg.alignment) # 0
    /\ arg.offset > arg.alignment

\* widths, member alignment overrides and explicit strides are powers of two
PowerOfTwoInputs(tys) ==
    \A i \in 1 .. Len(tys) :
        LET ty == tys[i] IN
        /\ ty.tag \in {"Scalar", "Vector", "Matrix"} => IsPowerOfTwo(ty.width)
        /\ ty.tag = "Array" => (ty.stride = 0 \/ IsPowerOfTwo(ty.stride))
        /\ ty.tag = "Struct" =>
               \A k \in 1 .. Len(ty.members) :
                   ty.members[k].align = 0 \/ IsPowerOfTwo(ty.members[k].align)

\* C3: after initialize on an arena whose widths and alignment overrides (and
\* explicit strides) are powers of two, every alignment of the layout table is
\* a nonzero power of two, arrays with a derived stride and structs included.
C3_AlignmentsArePowersOfTwo ==
    (Built /\ PowerOfTwoInputs(types)) =>
        \A i \in 1 .. Len(layouts) : IsPowerOfTwo(layouts[i].alignment)

\* C4: the size of every struct of the table is a multiple of the struct's
\* alignment.
C4_StructSizeMultipleOfAlignment ==
    Built =>
        \A i \in 1 .. Len(layouts) :
            types[i].tag = "Struct" => layouts[i].size % layouts[i].alignment = 0

\* C5: the layout of every struct is that of the walk over its members in
\* declaration order: member k starts at round_up(effective alignment, end of
\* member k - 1) (0 for the first), ends at start + (size override, else the
\* member type's size); the struct's alignment is the largest effective
\* alignment (at least 1) and its size round_up(that alignment, last end).
\* A vec3 of width 4 and a scalar of width 4 lie at 0..12 and 12..16, in a
\* struct of size 16 and alignment 16.
C5_StructLayoutIsMemberWalk ==
    Built =>
        /\ \A i \in 1 .. Len(layouts) :
               types[i].tag = "Struct" =>
                   LET ms == types[i].members
                       n == Len(ms)
                       EffAlign(m) == IF m.align # 0 THEN m.align
                                      ELSE layouts[m.ty + 1].alignment
                       Size(m) == IF m.size # 0 THEN m.size
                                  ELSE layouts[m.ty + 1].size
                       End[k \in 0 .. n] ==
                           IF k = 0 THEN 0
                           ELSE RoundUp(EffAlign(ms[k]), End[k - 1]) + Size(ms[k])
                       aligns == {1} \cup {EffAlign(ms[k]) : k \in 1 .. n}
                       biggest == CHOOSE a \in aligns : \A b \in aligns : a >= b
                   IN /\ layouts[i].alignment = biggest
                      /\ layouts[i].size = RoundUp(biggest, End[n])
        /\ types = ExampleStruct =>
               /\ MemberPlacement(layouts, 0, ExampleStruct[3].members[1])
                      = [panic |-> FALSE, start |-> 0, end |-> 12, alignment |-> 16]
               /\ MemberPlacement(layouts, 12, ExampleStruct[3].members[2])
                      = [panic |-> FALSE, start |-> 12, end |-> 16, alignment |-> 4]
               /\ layouts[3] = TypeLayout(16, 16)

\* a struct of four members: one of alignment 12 that round_up moves from 4
\* to 12, one with an alignment override, one with a size override
C5_Witness ==
    /\ Built
    /\ types = ExampleNested
    /\ MemberPlacement(layouts, 4, ExampleNested[4].members[2])
           = [panic |-> FALSE, start |-> 12, end |-> 48, alignment |-> 12]
    /\ layouts[4] = TypeLayout(80, 12)

\* C6: the layout of every array is (count * stride, stride): the stride is the
\* explicit one, else round_up(base alignment, base size) of the base's layout;
\* the count is the value of the integer constant, or 0 for a dynamic array,
\* whose size is therefore 0.
C6_ArrayLayoutIsCountTimesStride ==
    Built =>
        /\ \A i \in 1 .. Len(layouts) :
               types[i].tag = "Array" =>
                   LET ty == types[i]
                       base == layouts[ty.base + 1]
                       stride == IF ty.stride # 0 THEN ty.stride
                                 ELSE RoundUp(base.alignment, base.size)
                       count == IF ty.size = Dynamic THEN 0
                                ELSE constants[ty.size.handle + 1].value
                   IN /\ layouts[i].size = count * stride
                      /\ layouts[i].alignment = stride
                      /\ ty.size = Dynamic => layouts[i].size = 0
        /\ types = ExampleStruct => layouts[4] = TypeLayout(0, 16)

\* arrays of a constant count with a derived stride, one of them of a struct
C6_Witness ==
    /\ Built
    /\ types = ExampleNested
    /\ layouts[2] = TypeLayout(36, 12)
    /\ layouts[5] = TypeLayout(160, 80)

\* C7: every non-aggregate type gets the layout of the table, the products
\* taken without loss, for every component count and every width 1..255.
C7_LeafLayoutsMatchTable ==
    (op = "new" /\ types \in LeafArenas) =>
        LET ty == types[1]
            expected ==
                CASE ty.tag = "Scalar" -> TypeLayout(ty.width, ty.width)
                  [] ty.tag = "Vector" ->
                        TypeLayout(ty.size * ty.width,
                                   (IF ty.size >= 3 THEN 4 ELSE 2) * ty.width)
                  [] ty.tag = "Matrix" ->
                        TypeLayout(ty.columns * ty.rows * ty.width,
                                   (IF ty.rows >= 3 THEN 4 ELSE 2) * ty.width)
                  [] ty.tag \in {"Pointer", "ValuePointer"} -> TypeLayout(4, 1)
                  [] ty.tag \in {"Image", "Sampler"} -> TypeLayout(0, 1)
        IN status = "ok" /\ layouts = <<expected>>

\* C8: after any sequence of builds the table holds one entry per type of the
\* arena passed last, in handle order and nothing else, resolve of a handle of
\* that arena returns the value pushed for it, and resolve and
\* member_placement leave the table as the last build made it.
C8_TableIsLastBuild ==
    (op # "none" /\ status = "ok") =>
        /\ Len(layouts) = Len(types)
        /\ layouts = pushed
        /\ \A h \in 0 .. (Len(types) - 1) :
               Resolve(layouts, [index |-> h, own |-> TRUE]) = Value(pushed[h + 1])
        /\ (op = "resolve" /\ arg.own) => result = pushed[arg.index + 1]

\* a table rebuilt by initialize on a constructed layouter
C8_Witness ==
    /\ op = "initialize"
    /\ status = "ok"
    /\ types = SubSeq(ExampleNested, 1, 4)
    /\ Len(layouts) = 4
    /\ Resolve(layouts, [index |-> 3, own |-> TRUE]) = Value(TypeLayout(80, 12))

\* C9 as stated: resolve of a handle that is not of the arena the table was
\* built from always fails.
C9_ForeignHandleAlwaysFails ==
    (op = "resolve" /\ ~arg.own) => status = "panicked"

\* C9 as amended: resolve fails exactly when the handle's index is not below
\* the number of entries of the table, whatever arena the handle is from; below
\* it, resolve returns the entry at that index.
C9_ResolveFailsIffOutOfBounds ==
    op = "resolve" =>
        /\ status = "panicked" <=> arg.index >= Len(layouts)
        /\ status = "ok" => result = layouts[arg.index + 1]

\* a handle of another arena, resolved to an entry of the table
C9_Witness ==
    /\ op = "resolve"
    /\ ~arg.own
    /\ status = "ok"
    /\ result = layouts[arg.index + 1]

\* forward-ordered, nonzero widths whose products fit the u8 they are computed
\* in, and array sizes that are integer constants
WellFormed(tys, consts) ==
    \A i \in 1 .. Len(tys) :
        LET ty == tys[i] IN
        /\ ty.tag = "Scalar" => ty.width > 0
        /\ ty.tag = "Vector" => ty.width > 0 /\ 4 * ty.width < U8Modulus
        /\ ty.tag = "Matrix" =>
               /\ ty.width > 0
               /\ 4 * ty.width < U8Modulus
               /\ ty.columns * ty.rows * ty.width < U8Modulus
        /\ ty.tag = "Array" =>
               /\ ty.base + 1 < i
               /\ ty.size # Dynamic =>
                      /\ ty.size.handle < Len(consts)
                      /\ consts[ty.size.handle + 1].kind \in {"Uint", "Sint"}
        /\ ty.tag = "Struct" =>
               \A k \in 1 .. Len(ty.members) : ty.members[k].ty + 1 < i

\* C10: on a well-formed arena initialize ends without a fatal error, with a
\* layout pushed for every type.
C10_InitializeIsTotal ==
    (op = "new" /\ WellFormed(types, constants)) =>
        /\ status = "ok"
        /\ Len(layouts) = Len(types)

====
